---- MODULE Spec2Model ----
(***************************************************************************)
(* Model of github.com/matthewpi/backoff: the Backoff controller           *)
(* (backoff.go) driving a realTimer that wraps a time.Timer.               *)
(*                                                                         *)
(* time.Duration is a signed integer of DurBits bits (64 in Go); float64   *)
(* values are exact rationals num/den that overflow to +Inf/-Inf beyond    *)
(* MaxFloat64, with NaN for 0 * Inf.  Factors are dyadic rationals, for    *)
(* which float64 arithmetic is exact.  Durations are non-negative, as the  *)
(* data model of the specification states.  A time.Timer is the runtime    *)
(* timer the doc comment of Timer.Stop describes: its channel has a buffer  *)
(* of one value, a fire is a non-blocking send and Reset does not drain.    *)
(***************************************************************************)
EXTENDS Integers, Sequences, FiniteSets, TLC

\* ------------------------------------------------------------------ bounds
\* Width of time.Duration in the model (int64 in Go).
DurBits == 12
\* math.MaxFloat64 in the model: the largest finite float.
MaxFloat64 == 65536
\* Number of Next calls made on one controller.
MaxCalls == 4

\* --------------------------------------------------------------- constants
\* The safety margin subtracted from math.MaxInt64 in backoff.go.
Margin == 512

RECURSIVE Pow2(_)
Pow2(k) == IF k = 0 THEN 1 ELSE 2 * Pow2(k - 1)

MaxInt64 == Pow2(DurBits - 1) - 1
MinInt64 == -Pow2(DurBits - 1)

\* ------------------------------------------------------------------ floats
Abs(x) == IF x < 0 THEN -x ELSE x

Fin(num, den) == [cls |-> "fin", num |-> num, den |-> den]
PInf == [cls |-> "pinf", num |-> 0, den |-> 1]
NInf == [cls |-> "ninf", num |-> 0, den |-> 1]
NaN == [cls |-> "nan", num |-> 0, den |-> 1]

\* float64(i) of an integer i: exact.
Float64(i) == Fin(i, 1)

\* -1, 0 or 1; NaN has no sign.
SignF(a) ==
  CASE a.cls = "pinf" -> 1
    [] a.cls = "ninf" -> -1
    [] a.cls = "nan" -> 0
    [] OTHER -> IF a.num > 0 THEN 1 ELSE IF a.num < 0 THEN -1 ELSE 0

\* a * b in float64: NaN for NaN operands and 0 * Inf, a signed infinity for
\* an infinite operand or a product beyond MaxFloat64, else the exact product.
MulF(a, b) ==
  IF a.cls = "nan" \/ b.cls = "nan" THEN NaN
  ELSE IF a.cls # "fin" \/ b.cls # "fin"
    THEN IF SignF(a) * SignF(b) = 0 THEN NaN
         ELSE IF SignF(a) * SignF(b) > 0 THEN PInf ELSE NInf
  ELSE LET den == a.den * b.den
           lim == MaxFloat64 * den
       IN IF b.num # 0 /\ Abs(a.num) > lim \div Abs(b.num)
            THEN IF SignF(a) * SignF(b) > 0 THEN PInf ELSE NInf
            ELSE Fin(a.num * b.num, den)

\* math.Pow(x, float64(k)) for an integer k >= 0.
RECURSIVE Pow(_, _)
Pow(x, k) == IF k = 0 THEN Fin(1, 1) ELSE MulF(x, Pow(x, k - 1))

\* a > b in float64; false when either side is NaN.
GtF(a, b) ==
  CASE a.cls = "nan" \/ b.cls = "nan" -> FALSE
    [] a.cls = "pinf" -> b.cls # "pinf"
    [] a.cls = "ninf" -> FALSE
    [] b.cls = "pinf" -> FALSE
    [] b.cls = "ninf" -> TRUE
    [] OTHER -> a.num * b.den > b.num * a.den

\* The quotient num/den rounded toward zero.
Trunc(num, den) == IF num >= 0 THEN num \div den ELSE -((-num) \div den)

\* A float-to-integer conversion of a value the integer type cannot hold is
\* implementation-dependent in Go: amd64 yields the minimum integer, arm64
\* saturates and converts NaN to 0.
OutOfRange(a, arch) ==
  IF arch = "amd64" THEN MinInt64
  ELSE IF SignF(a) > 0 THEN MaxInt64
  ELSE IF SignF(a) < 0 THEN MinInt64
  ELSE 0

\* time.Duration(f).
ToDuration(a, arch) ==
  IF a.cls # "fin" THEN OutOfRange(a, arch)
  ELSE IF Trunc(a.num, a.den) > MaxInt64 \/ Trunc(a.num, a.den) < MinInt64
    THEN OutOfRange(a, arch)
  ELSE Trunc(a.num, a.den)

\* maxInt64 is used to avoid overflowing a time.Duration value.
maxInt64 == Float64(MaxInt64 - Margin)

\* ------------------------------------------------------------------- state
VARIABLES
  n,            \* Backoff.n, the current attempt
  MaxAttempts,  \* Backoff.MaxAttempts
  Factor,       \* Backoff.Factor
  Min,          \* Backoff.Min
  Max,          \* Backoff.Max
  Timer,        \* Backoff.Timer, a realTimer and its time.Timer
  arch,         \* the platform the program was built for
  pc,           \* where the caller's goroutine is inside Next
  ctxDone,      \* whether the ctx of the current (or last) Next call is done
  ret,          \* the result of the last Next call since New or Reset
  obs,          \* what the caller read last (Attempt or Duration) since Next or Reset
  calls,        \* number of Next calls made
  hExh,         \* history: the last Next call found the attempts exhausted
  hDone,        \* history: ctx was already done when the last Next call began
  hTrues,       \* history: Next calls that returned true since New or Reset
  hCancel,      \* history: some ctx was done since New or Reset
  hReset,       \* history: Reset has been called
  d,            \* the local d of the last Next call that computed it
  fTimer        \* the timer of a controller made by New at the last Reset
                \* (or at New itself) and driven by the same steps since

vars == <<n, MaxAttempts, Factor, Min, Max, Timer, arch, pc, ctxDone, ret,
          obs, calls, hExh, hDone, hTrues, hCancel, hReset, d, fTimer>>

config == <<MaxAttempts, Factor, Min, Max, arch>>
hist == <<hExh, hDone, hTrues, hCancel, hReset>>

\* The configurations New is called with.
AttemptLimits == 0..3
Factors == {Fin(0, 1), Fin(1, 4), Fin(1, 1), Fin(5, 4), Fin(2, 1),
            Fin(-2, 1), Fin(MaxFloat64, 1), Fin(-MaxFloat64, 1)}
Mins == {0, 1, 3}
Maxs == {0, 2, 5, 40}
Archs == {"amd64", "arm64"}

\* A realTimer whose time.Timer is nil.
NewRealTimer == [created |-> FALSE, active |-> FALSE, chan |-> 0]

\* ------------------------------------------------------------ the backoff
\* float64(b.Min) * math.Pow(b.Factor, float64(attempt)).
durF(attempt) == MulF(Float64(Min), Pow(Factor, attempt))

\* growth without the lower clamp.
growthNoFloor(attempt) ==
  IF GtF(durF(attempt), maxInt64) THEN Max
  ELSE LET dur == ToDuration(durF(attempt), arch)
       IN IF dur > Max THEN Max ELSE dur

\* growth without the upper clamp.
growthNoCeiling(attempt) ==
  IF GtF(durF(attempt), maxInt64) THEN Max
  ELSE LET dur == ToDuration(durF(attempt), arch)
       IN IF dur < Min THEN Min ELSE dur

\* The delay of an attempt other than the first: the grown delay, Max when
\* it would overflow a time.Duration, clamped to Min and then to Max.
growth(attempt) ==
  IF GtF(durF(attempt), maxInt64) THEN Max
  ELSE LET dur == ToDuration(durF(attempt), arch)
       IN IF dur < Min THEN Min
          ELSE IF dur > Max THEN Max
          ELSE dur

\* duration that delays the first attempt as well.
durationDelaysFirst(attempt) == growth(attempt)

\* duration returns the time.Duration to wait before running the given attempt.
duration(attempt) == IF attempt = 0 THEN 0 ELSE growth(attempt)

\* Duration returns the duration to wait for the current attempt.
Duration == duration(n)

\* Exhausted off by one.
ExhaustedLate == MaxAttempts # 0 /\ n > MaxAttempts

\* The condition under which Next returns false at once.
Exhausted == MaxAttempts # 0 /\ n >= MaxAttempts

\* d := b.Duration(), taken before the increment.
NextDelay == Duration

\* realTimer.C: nil until the time.Timer exists, then its channel.
TimerC(t) == IF ~t.created THEN "nil" ELSE "C"

\* TimerStart that arms only a new time.Timer and forgets to Reset one
\* that exists.
TimerStartNoReset(t) ==
  IF t.created THEN t ELSE [t EXCEPT !.created = TRUE, !.active = TRUE]

\* realTimer.Start: create the time.Timer or Reset it.  Either way the timer
\* is armed; Reset leaves the channel's buffer as it was.
TimerStart(t) == [t EXCEPT !.created = TRUE, !.active = TRUE]

\* TimerStopResult without the nil check.
TimerStopResultNoNil(t) == t.active

\* TimerStopResult with the result of time.Timer.Stop negated.
TimerStopResultNegated(t) == IF ~t.created THEN TRUE ELSE ~t.active

\* realTimer.Stop: true for a nil timer, else whether the time.Timer was
\* still armed.
TimerStopResult(t) == IF ~t.created THEN TRUE ELSE t.active

\* The timer after realTimer.Stop.
TimerStop(t) == [t EXCEPT !.active = FALSE]

\* The timer after the runtime fired it: a non-blocking send on its channel
\* of capacity 1.
TimerFired(t) == [t EXCEPT !.active = FALSE, !.chan = 1]

\* The timer after a receive from its channel.
TimerReceived(t) == [t EXCEPT !.chan = 0]

\* New(maxAttempts, factor, min, max).
Init ==
  /\ n = 0
  /\ MaxAttempts \in AttemptLimits
  /\ Factor \in Factors
  /\ Min \in Mins
  /\ Max \in Maxs
  /\ arch \in Archs
  /\ Timer = NewRealTimer
  /\ pc = "idle"
  /\ ctxDone = FALSE
  /\ ret = [op |-> "none", ok |-> FALSE]
  /\ obs = [op |-> "none", v |-> 0]
  /\ calls = 0
  /\ hExh = FALSE
  /\ hDone = FALSE
  /\ hTrues = 0
  /\ hCancel = FALSE
  /\ hReset = FALSE
  /\ d = 0
  /\ fTimer = NewRealTimer

\* A Next call returns ok.
Return(ok) ==
  /\ ret' = [op |-> "Next", ok |-> ok]
  /\ pc' = "idle"
  /\ hTrues' = IF ok THEN hTrues + 1 ELSE hTrues

\* A Next call begins with a ctx that is done or not.
Enter(done) ==
  /\ pc = "idle"
  /\ calls < MaxCalls
  /\ calls' = calls + 1
  /\ ctxDone' = done
  /\ hDone' = done
  /\ hCancel' = (hCancel \/ done)
  /\ obs' = [op |-> "none", v |-> 0]
  /\ UNCHANGED <<config, hReset>>

\* NextExhausted that counts the rejected call as an attempt.
NextExhaustedCounts(done) ==
  /\ Enter(done)
  /\ Exhausted
  /\ hExh' = TRUE
  /\ Return(FALSE)
  /\ n' = n + 1
  /\ UNCHANGED <<Timer, d, fTimer>>

\* Next(ctx) when the attempts are exhausted.
NextExhausted(done) ==
  /\ Enter(done)
  /\ Exhausted
  /\ hExh' = TRUE
  /\ Return(FALSE)
  /\ UNCHANGED <<n, Timer, d, fTimer>>

\* NextZero that does not look at ctx.
NextZeroIgnoresCtx(done) ==
  /\ Enter(done)
  /\ ~Exhausted
  /\ NextDelay = 0
  /\ hExh' = FALSE
  /\ n' = n + 1
  /\ Return(TRUE)
  /\ d' = NextDelay
  /\ UNCHANGED <<Timer, fTimer>>

\* Next(ctx) when the duration is zero: the timer is bypassed.
NextZero(done) ==
  /\ Enter(done)
  /\ ~Exhausted
  /\ NextDelay = 0
  /\ hExh' = FALSE
  /\ n' = n + 1
  /\ Return(~done)
  /\ d' = NextDelay
  /\ UNCHANGED <<Timer, fTimer>>

\* NextStart that increments the attempt only once the wait is over.
NextStartNoIncrement(done) ==
  /\ Enter(done)
  /\ ~Exhausted
  /\ NextDelay # 0
  /\ hExh' = FALSE
  /\ d' = NextDelay
  /\ Timer' = TimerStart(Timer)
  /\ fTimer' = TimerStart(fTimer)
  /\ pc' = "select"
  /\ UNCHANGED <<n, ret, hTrues>>

\* Next(ctx) when the duration is not zero, up to the select it blocks in.
NextStart(done) ==
  /\ Enter(done)
  /\ ~Exhausted
  /\ NextDelay # 0
  /\ hExh' = FALSE
  /\ n' = n + 1
  /\ d' = NextDelay
  /\ Timer' = TimerStart(Timer)
  /\ fTimer' = TimerStart(fTimer)
  /\ pc' = "select"
  /\ UNCHANGED <<ret, hTrues>>

\* The ctx of the Next call in progress is cancelled.
Cancel ==
  /\ pc # "idle"
  /\ ~ctxDone
  /\ ctxDone' = TRUE
  /\ hCancel' = TRUE
  /\ UNCHANGED <<n, config, Timer, pc, ret, obs, calls, hExh, hDone, hTrues,
                 hReset, d, fTimer>>

\* The runtime fires the armed time.Timer.
TimerFire ==
  /\ Timer.active
  /\ Timer' = TimerFired(Timer)
  /\ fTimer' = TimerFired(fTimer)
  /\ UNCHANGED <<n, config, pc, ctxDone, ret, obs, calls, hist, d>>

\* SelectDone that returns without draining the channel.
SelectDoneNoDrain ==
  /\ pc = "select"
  /\ ctxDone
  /\ Timer' = TimerStop(Timer)
  /\ fTimer' = TimerStop(fTimer)
  /\ Return(FALSE)
  /\ UNCHANGED <<n, config, ctxDone, obs, calls, hExh, hDone, hCancel,
                 hReset, d>>

\* The select takes the ctx.Done() case: Stop the timer, then return false
\* or go on to drain the channel.
SelectDone ==
  /\ pc = "select"
  /\ ctxDone
  /\ Timer' = TimerStop(Timer)
  /\ fTimer' = TimerStop(fTimer)
  /\ IF TimerStopResult(Timer)
       THEN Return(FALSE)
       ELSE /\ pc' = "drain"
            /\ UNCHANGED <<ret, hTrues>>
  /\ UNCHANGED <<n, config, ctxDone, obs, calls, hExh, hDone, hCancel,
                 hReset, d>>

\* <-b.Timer.C() after a Stop that returned false.
Drain ==
  /\ pc = "drain"
  /\ TimerC(Timer) # "nil"
  /\ Timer.chan = 1
  /\ Timer' = TimerReceived(Timer)
  /\ fTimer' = TimerReceived(fTimer)
  /\ Return(FALSE)
  /\ UNCHANGED <<n, config, ctxDone, obs, calls, hExh, hDone, hCancel,
                 hReset, d>>

\* SelectTimer that reports the fired timer as a failure.
SelectTimerFalse ==
  /\ pc = "select"
  /\ TimerC(Timer) # "nil"
  /\ Timer.chan = 1
  /\ Timer' = TimerReceived(Timer)
  /\ fTimer' = TimerReceived(fTimer)
  /\ Return(FALSE)
  /\ UNCHANGED <<n, config, ctxDone, obs, calls, hExh, hDone, hCancel,
                 hReset, d>>

\* The select takes the b.Timer.C() case.
SelectTimer ==
  /\ pc = "select"
  /\ TimerC(Timer) # "nil"
  /\ Timer.chan = 1
  /\ Timer' = TimerReceived(Timer)
  /\ fTimer' = TimerReceived(fTimer)
  /\ Return(TRUE)
  /\ UNCHANGED <<n, config, ctxDone, obs, calls, hExh, hDone, hCancel,
                 hReset, d>>

\* Reset that also replaces the timer by a new one.
ResetNewTimer ==
  /\ pc = "idle"
  /\ n' = 0
  /\ ret' = [op |-> "none", ok |-> FALSE]
  /\ hExh' = FALSE
  /\ hDone' = FALSE
  /\ hTrues' = 0
  /\ hCancel' = FALSE
  /\ hReset' = TRUE
  /\ obs' = [op |-> "none", v |-> 0]
  /\ fTimer' = NewRealTimer
  /\ Timer' = NewRealTimer
  /\ UNCHANGED <<config, pc, ctxDone, calls, d>>

\* Reset resets the backoff back to 0.
Reset ==
  /\ pc = "idle"
  /\ n' = 0
  /\ ret' = [op |-> "none", ok |-> FALSE]
  /\ hExh' = FALSE
  /\ hDone' = FALSE
  /\ hTrues' = 0
  /\ hCancel' = FALSE
  /\ hReset' = TRUE
  /\ obs' = [op |-> "none", v |-> 0]
  /\ fTimer' = NewRealTimer
  /\ UNCHANGED <<config, Timer, pc, ctxDone, calls, d>>

\* Attempt returns the current attempt.
Attempt ==
  /\ pc = "idle"
  /\ obs' = [op |-> "Attempt", v |-> n]
  /\ UNCHANGED <<n, config, Timer, pc, ctxDone, ret, calls, hist, d, fTimer>>

\* The caller reads Duration().
ReadDuration ==
  /\ pc = "idle"
  /\ obs' = [op |-> "Duration", v |-> Duration]
  /\ UNCHANGED <<n, config, Timer, pc, ctxDone, ret, calls, hist, d, fTimer>>

Next ==
  \/ \E done \in BOOLEAN : NextExhausted(done)
  \/ \E done \in BOOLEAN : NextZero(done)
  \/ \E done \in BOOLEAN : NextStart(done)
  \/ Cancel
  \/ TimerFire
  \/ SelectDone
  \/ Drain
  \/ SelectTimer
  \/ Reset
  \/ Attempt
  \/ ReadDuration

Spec == Init /\ [][Next]_vars

\* The runtime fires an armed timer, and the goroutine blocked in Next's
\* select or in the drain runs once a case it waits for is ready.
Fairness ==
  /\ WF_vars(TimerFire)
  /\ WF_vars(SelectTimer)
  /\ WF_vars(SelectDone)
  /\ WF_vars(Drain)

FairSpec == Spec /\ Fairness

TypeOK ==
  /\ n \in 0..MaxCalls
  /\ calls \in 0..MaxCalls
  /\ pc \in {"idle", "select", "drain"}
  /\ Timer.chan \in 0..1
  /\ hTrues \in 0..MaxCalls

\* ------------------------------------------------------------------ claims
\* Helpers of the claims: what a step of the caller is.
IsCall == calls' = calls + 1
FactorAbove1 == GtF(Factor, Float64(1))
FactorAtLeast2 == ~GtF(Float64(2), Factor)
BelowMax(attempt) == GtF(Float64(Max), durF(attempt))
\* What Duration() returns at each attempt, under the (immutable) configuration.
DurationAt == [a \in 0..MaxCalls |-> duration(a)]

\* C1: with MaxAttempts = N > 0 and no cancellation, a loop that calls Next
\* until it returns false sees exactly N true-returns and then false, and
\* Attempt() is N afterward; a false-return comes only once the N attempts
\* are used up, and no more than N calls return true.
C1_ExactlyNAttempts ==
  (MaxAttempts > 0 /\ ~hCancel) =>
    /\ hTrues <= MaxAttempts
    /\ (pc = "idle" /\ ret.op = "Next" /\ ~ret.ok) =>
         (hTrues = MaxAttempts /\ n = MaxAttempts)

C1_Witness ==
  /\ pc = "idle" /\ ret.op = "Next" /\ ~ret.ok /\ ~hCancel
  /\ MaxAttempts = 3 /\ hTrues = 3 /\ n = 3 /\ Timer.created

\* C2 as stated: a Next call made with MaxAttempts # 0 and n >= MaxAttempts
\* returns false at once, leaves Attempt(), Duration() and the timer as they
\* were, and Duration() is the non-zero value of the last attempt.
C2_Original ==
  [][(IsCall /\ MaxAttempts # 0 /\ n >= MaxAttempts) =>
       /\ pc' = "idle" /\ ret'.op = "Next" /\ ~ret'.ok
       /\ n' = n /\ config' = config /\ DurationAt[n'] = DurationAt[n]
       /\ Timer' = Timer /\ DurationAt[n'] # 0]_vars

\* C2 amended: a Next call made with MaxAttempts # 0 and n >= MaxAttempts
\* returns false at once and leaves Attempt(), Duration() and the timer as
\* they were; the value Duration() keeps is non-zero when Min > 0 and Max > 0.
C2_ExhaustedFrame ==
  [][(IsCall /\ MaxAttempts # 0 /\ n >= MaxAttempts) =>
       /\ pc' = "idle" /\ ret'.op = "Next" /\ ~ret'.ok
       /\ n' = n /\ config' = config /\ DurationAt[n'] = DurationAt[n]
       /\ Timer' = Timer
       /\ (Min > 0 /\ Max > 0) => DurationAt[n'] # 0]_vars

C2_Witness ==
  /\ pc = "idle" /\ ret.op = "Next" /\ ~ret.ok /\ hExh
  /\ n = MaxAttempts /\ Min > 0 /\ Max > 0 /\ Duration # 0 /\ Timer.created

\* C3: Next returns false only when the attempts were exhausted at the call
\* or the ctx was done before it returned; with MaxAttempts = 0 and no
\* cancellation every call returns true.
C3_FalseOnlyExhaustedOrCancelled ==
  (pc = "idle" /\ ret.op = "Next") =>
    /\ ~ret.ok => (hExh \/ ctxDone)
    /\ hExh => (MaxAttempts # 0 /\ n >= MaxAttempts)
    /\ (MaxAttempts = 0 /\ ~hCancel) => ret.ok

C3_Witness ==
  /\ pc = "idle" /\ ret.op = "Next" /\ ret.ok /\ MaxAttempts = 0
  /\ ~hCancel /\ calls = MaxCalls /\ hTrues = MaxCalls /\ Timer.created

\* C4: the first Next call on a fresh controller, made with a ctx that is
\* already done, returns false without blocking and without starting the timer.
C4_CancelledFirstCall ==
  [][(calls = 0 /\ n = 0 /\ IsCall /\ ctxDone') =>
       /\ pc' = "idle" /\ ret'.op = "Next" /\ ~ret'.ok
       /\ Timer' = Timer /\ ~Timer'.created]_vars

C4_Witness ==
  /\ calls = 1 /\ hDone /\ pc = "idle" /\ ret.op = "Next" /\ ~ret.ok
  /\ ~Timer.created /\ Min > 0 /\ Max > 0 /\ n = 1

\* C5: a Next call made with a ctx that is already done returns false,
\* never true, on any attempt.
C5_CancelledNeverTrue ==
  (pc = "idle" /\ ret.op = "Next" /\ hDone) => ~ret.ok

\* C6: a Next call that is not rejected for exhaustion increments n by
\* exactly 1, and does so before it waits: n is already incremented when the
\* call blocks, and neither the wait nor the way the call ends changes it.
C6_IncrementBeforeWait ==
  [][/\ (IsCall /\ ~(MaxAttempts # 0 /\ n >= MaxAttempts)) => n' = n + 1
     /\ (pc # "idle") => n' = n]_vars

C6_Witness ==
  pc = "drain" /\ n = calls /\ n >= 2 /\ hCancel

\* C7: for 0 <= Min <= Max and every attempt >= 1 the duration lies in
\* [Min, Max], for every factor; a factor as large as MaxFloat64 yields Max.
C7_WithinBounds ==
  (0 <= Min /\ Min <= Max) =>
    LET D == DurationAt
    IN \A a \in 1..MaxCalls :
         /\ Min <= D[a] /\ D[a] <= Max
         /\ (Min > 0 /\ Factor = Fin(MaxFloat64, 1)) => D[a] = Max

C7_Witness ==
  /\ 0 < Min /\ Min < Max /\ Factor = Fin(MaxFloat64, 1)
  /\ n >= 2 /\ obs = [op |-> "Duration", v |-> Max]

\* C8: Duration() never exceeds Max, under every configuration (inverted
\* bounds included), at every attempt and for every factor that is zero,
\* below 1, equal to 1 or above 1.
C8_NeverAboveMax == (SignF(Factor) >= 0) => Duration <= Max

\* C9: Duration() is 0 whenever n is 0, for every configuration, and a Next
\* call made at n = 0 returns without the timer.
C9_FirstAttemptUndelayed ==
  [][/\ n = 0 => Duration = 0
     /\ n' = 0 => DurationAt[n'] = 0
     /\ (n = 0 /\ IsCall) => (pc' = "idle" /\ Timer' = Timer)]_vars

C9_Witness ==
  /\ n = 0 /\ calls >= 2 /\ Timer.created /\ Min > 0 /\ Max > 0
  /\ obs = [op |-> "Duration", v |-> 0]

\* C10 as stated: with Factor > 1 and Min <= Max the duration does not
\* decrease from one attempt to the next, and it strictly increases while
\* Min * Factor^attempt is below Max.
C10_Original ==
  (FactorAbove1 /\ Min <= Max /\ n >= 1) =>
    /\ duration(n - 1) <= duration(n)
    /\ BelowMax(n) => duration(n - 1) < duration(n)

\* C10 amended: with Factor > 1 and 0 <= Min <= Max the duration does not
\* decrease from one attempt to the next; it strictly increases while
\* Min * Factor^attempt is below Max provided Factor >= 2 and Min >= 1.
C10_Monotonic ==
  (FactorAbove1 /\ 0 <= Min /\ Min <= Max) =>
    LET D == DurationAt
    IN \A a \in 1..MaxCalls :
         /\ D[a - 1] <= D[a]
         /\ (FactorAtLeast2 /\ Min >= 1 /\ BelowMax(a)) => D[a - 1] < D[a]

C10_Witness ==
  /\ Factor = Fin(2, 1) /\ Min = 3 /\ Max = 40 /\ n = 4
  /\ duration(3) = 24 /\ duration(4) = 40
  /\ obs = [op |-> "Duration", v |-> 40]

\* The configuration New(3, 2, 1s, 5s), in seconds, driven by sequential
\* Next calls with no cancellation and no Reset.
Example == MaxAttempts = 3 /\ Factor = Fin(2, 1) /\ Min = 1 /\ Max = 5
Sequential == ~hReset /\ ~hCancel /\ pc = "idle"

\* C11: the duration the second Next call (the one that begins attempt 1)
\* hands to the timer equals Min, for every configuration with Min <= Max.
C11_FirstRetryWaitsMin ==
  (Min <= Max /\ ~hReset /\ calls = 2 /\ pc = "select") => d = Min

\* C12 as stated: for New(3, 2, 1s, 5s) Duration() is 2s after the 1st call
\* and 4s after the 2nd, and the 3rd call returns false, attempt being
\* already 3, and leaves Duration() as it was.
C12_Original ==
  (Example /\ Sequential) =>
    /\ calls = 1 => Duration = 2
    /\ calls = 2 => Duration = 4
    /\ calls = 3 => (~ret.ok /\ hExh /\ Duration = 4)

\* C12 amended: for New(3, 2, 1s, 5s) Duration() is 2s after the 1st call
\* and 4s after the 2nd; the 3rd call returns true (after waiting 4s) and
\* Duration() is then 5s; the 4th call returns false, attempt being already
\* 3, and leaves Duration() as it was.
C12_Example ==
  (Example /\ Sequential) =>
    /\ calls = 1 => (ret.ok /\ n = 1 /\ Duration = 2)
    /\ calls = 2 => (ret.ok /\ n = 2 /\ Duration = 4)
    /\ calls = 3 => (ret.ok /\ ~hExh /\ n = 3 /\ d = 4 /\ Duration = 5)
    /\ calls = 4 => (~ret.ok /\ hExh /\ n = 3 /\ Duration = 5)

C12_Witness ==
  Example /\ Sequential /\ calls = 4 /\ ~ret.ok /\ hTrues = 3 /\ Duration = 5

\* A step that is a Reset call, and one in which Next calls Timer.Stop.
IsReset == pc = "idle" /\ calls' = calls /\ hReset' /\ obs'.op = "none"
StopTrue == pc = "select" /\ pc' = "idle" /\ ~ret'.ok
StopFalse == pc = "select" /\ pc' = "drain"

\* C13: Reset sets n to 0 and from then on the controller behaves as one
\* freshly made by New with the same configuration: the state after Reset
\* is New's but for the reused timer, and under the same steps the reused
\* timer and the fresh controller's timer are armed, fired and drained alike
\* and give the same C() and Stop() result whenever Next reads them.
C13_ResetLikeNew ==
  [][/\ IsReset =>
          /\ n' = 0 /\ DurationAt[n'] = 0 /\ pc' = "idle" /\ config' = config
          /\ Timer' = Timer /\ fTimer' = NewRealTimer
     /\ Timer'.active = fTimer'.active /\ Timer'.chan = fTimer'.chan
     /\ pc' # "idle" =>
          /\ TimerC(Timer') = TimerC(fTimer')
          /\ TimerStopResult(Timer') = TimerStopResult(fTimer')]_vars

C13_Witness ==
  /\ hReset /\ pc = "select" /\ n = 2 /\ fTimer.chan = 0
  /\ Timer.active /\ fTimer.active /\ calls = MaxCalls /\ d > 0

\* C14: a realTimer that was never started has a nil C(), nothing to
\* deliver and no fire pending, and its Stop() returns true; once started
\* C() is non-nil and stays so, after a fire and on every later Start.
C14_NilUntilStarted ==
  [][/\ ~Timer.created =>
          /\ TimerC(Timer) = "nil" /\ TimerStopResult(Timer)
          /\ ~Timer.active /\ Timer.chan = 0
     /\ Timer.created => (TimerC(Timer) # "nil" /\ Timer'.created)
     /\ (pc = "idle" /\ pc' = "select") => TimerC(Timer') # "nil"]_vars

C14_Witness ==
  /\ pc = "idle" /\ Timer.created /\ TimerC(Timer) # "nil" /\ ~Timer.active
  /\ hTrues = 3 /\ ~hCancel /\ ~hReset /\ d > 0

\* C15 as stated: Stop() returns true if and only if it prevented a pending
\* fire; false if the timer had fired and false if it was never started.
C15_Original == TimerStopResult(Timer) <=> Timer.active

\* C15 amended: Stop() returns true if it prevented a pending fire or if the
\* timer was never started, and false if the timer had already fired (or
\* had been stopped): when Next's Stop returns true the timer was armed and
\* nothing is delivered, when it returns false the completion is in the
\* channel.
C15_StopResult ==
  [][/\ StopTrue =>
          /\ Timer.active /\ Timer.chan = 0
          /\ ~Timer'.active /\ Timer'.chan = 0
     /\ StopFalse => (~Timer.active /\ Timer.chan = 1 /\ ~Timer'.active)
     /\ ~Timer.created => TimerStopResult(Timer)
     /\ Timer.created => (TimerStopResult(Timer) <=> Timer.active)]_vars

C15_Witness ==
  pc = "drain" /\ ~Timer.active /\ Timer.chan = 1 /\ ctxDone /\ ~hDone

\* C16: a Next call that waits on the timer and whose ctx is not cancelled
\* eventually returns true: the timer it started delivers its completion
\* and the call receives it.
C16_EventuallyTrue ==
  (pc = "select") ~> ((pc = "idle" /\ ret.op = "Next" /\ ret.ok) \/ ctxDone)

C16_Witness ==
  /\ pc = "idle" /\ ret.op = "Next" /\ ret.ok /\ ~hCancel /\ d > 0
  /\ hTrues = MaxCalls /\ Timer.created /\ Timer.chan = 0

\* C17: a Next call whose ctx is cancelled while it waits on the timer
\* eventually returns, whatever the order of cancel, fire and Stop; when
\* Stop did not prevent the fire the completion is in the channel, so the
\* drain receives it and never blocks.
C17_CancelledReturns ==
  /\ (pc # "idle" /\ ctxDone) ~> (pc = "idle")
  /\ [](pc = "drain" => (TimerC(Timer) # "nil" /\ Timer.chan = 1))

C17_Witness ==
  /\ pc = "idle" /\ ret.op = "Next" /\ ~ret.ok /\ ctxDone /\ ~hDone /\ ~hExh
  /\ d > 0 /\ Timer.created /\ Timer.chan = 0 /\ ~Timer.active

\* A step in which the caller reads Attempt() or Duration().
IsRead == obs'.op # "none" /\ obs' # obs

\* C18: whenever no Next call is in progress the timer's channel is empty
\* and no fire is pending, so each Start arms a quiescent timer and the
\* completion a wait receives comes from the arming of the same call.
C18_QuiescentWhenIdle ==
  pc = "idle" => (Timer.chan = 0 /\ ~Timer.active)

C18_Witness ==
  /\ pc = "idle" /\ Timer.created /\ Timer.chan = 0 /\ ~Timer.active
  /\ hReset /\ hCancel /\ ret.op = "Next" /\ ~ret.ok /\ ~hExh /\ d > 0
  /\ calls = MaxCalls

\* C19: Attempt(), Duration() and Reset() leave the timer as it is, Attempt()
\* and Duration() change no state of the controller at all, and a Next call
\* whose duration is 0 returns without the timer; only a Next call with a
\* non-zero duration changes the timer.
C19_TimerOnlyInWait ==
  [][/\ IsRead =>
          /\ Timer' = Timer /\ n' = n /\ config' = config
          /\ pc' = pc /\ ctxDone' = ctxDone /\ ret' = ret
          /\ obs'.v = (IF obs'.op = "Attempt" THEN n ELSE DurationAt[n])
     /\ IsReset => Timer' = Timer
     /\ (IsCall /\ DurationAt[n] = 0) => (Timer' = Timer /\ pc' = "idle")
     /\ (pc = "idle" /\ Timer' # Timer) =>
          (IsCall /\ DurationAt[n] # 0 /\ pc' = "select")]_vars

C19_Witness ==
  /\ pc = "idle" /\ hReset /\ n = 0 /\ Timer.created
  /\ obs = [op |-> "Attempt", v |-> 0]

\* C20: with MaxAttempts = N > 0, 0 <= n <= N in every state, whatever the
\* order of Next calls, cancellations and Reset calls.
C20_AttemptWithinLimit ==
  MaxAttempts > 0 => (0 <= n /\ n <= MaxAttempts)

C20_Witness ==
  /\ MaxAttempts = 2 /\ n = 2 /\ hReset /\ hCancel /\ hExh /\ pc = "idle"
  /\ calls = MaxCalls
====
